---------------------------- MODULE Spec2Model ----------------------------
(***************************************************************************)
(* Model of the Bollinger mean-reversion stock picker.                      *)
(*                                                                          *)
(* Numbers.  Python floats are modelled as integers in fixed units:         *)
(*   volume_ratio, price_momentum, scores              : hundredths         *)
(*   close, ma, std                                    : price units        *)
(*   bb_position                                       : exact fraction     *)
(*   target_price, stop_loss                           : 1/100 price unit   *)
(*   rsi                                               : RSI points         *)
(*   macd, macd_signal                                 : abstract levels    *)
(* NaN is a distinguished value; every comparison with it is FALSE, as in   *)
(* IEEE arithmetic.  Portfolio weights are exact fractions [num, den].      *)
(*                                                                          *)
(* Signal labels (the source uses Chinese string literals):                 *)
(*   STRONG_OVERSOLD     = '强烈超跌'    OVERSOLD_REBOUND    = '超跌反弹'   *)
(*   STRONG_OVERBOUGHT   = '强烈超买'    OVERBOUGHT_PULLBACK = '超买回调'   *)
(*   RSI_OVERSOLD        = 'RSI超卖'     RSI_OVERBOUGHT      = 'RSI超买'    *)
(*   GOLDEN_CROSS        = 'MACD金叉'    DEATH_CROSS         = 'MACD死叉'   *)
(*   VOLUME_SPIKE        = '成交量放大'                                     *)
(*   MOMENTUM_UP         = '价格动量向上' MOMENTUM_DOWN      = '价格动量向下'*)
(***************************************************************************)
EXTENDS Integers, Sequences, FiniteSets, TLC

VARIABLES
    strategy,       \* which strategy class is instantiated
    frame,          \* the price/indicator frame handed to the strategy
    signals,        \* the dict returned by _analyze_signals
    score,          \* the value returned by _calculate_composite_score
    analysis,       \* the dict returned by analyze_stock
    advice,         \* the dict returned by _generate_trading_advice
    series,         \* the price DataFrame: its close and volume columns
    rsi_period,     \* the period argument of _calculate_rsi
    rsi_last,       \* the last value of the series _calculate_rsi returns
    stock_data_dict,\* the series handed to screen_stocks, in dict order
    config,         \* what the configuration file holds
    screened,       \* the candidate list handed to the allocator
    max_positions,  \* the allocator's max_positions argument
    portfolio,      \* the dict returned by the allocator
    runner,         \* which batch runner is running
    screener,       \* the screener object: max_workers and batch_size
    stocks,         \* the universe: one behaviour per instrument
    max_stocks,     \* _get_stock_data's max_stocks argument
    pc,             \* the orchestrator's position
    idx,            \* loop index of the orchestrator (next instrument)
    task,           \* thread-pool runner: per-instrument future state
    batch_picks,    \* thread-pool runner: the list local to one batch
    picks,          \* the result list the orchestrator appends to
    fetched,        \* instruments whose series was requested
    raised          \* TRUE when an exception escaped the batch run

vars == <<strategy, frame, signals, score, analysis, advice, series,
          rsi_period, rsi_last, stock_data_dict, config, screened,
          max_positions, portfolio, runner, screener, stocks, max_stocks,
          pc, idx, task, batch_picks, picks, fetched, raised>>

seriesVars   == <<series, rsi_period, rsi_last>>
inputVars    == <<stock_data_dict, config>>
pipelineVars == <<strategy, frame, signals, score, analysis, advice,
                  seriesVars, inputVars>>
allocVars    == <<screened, max_positions, portfolio>>
batchVars    == <<runner, screener, stocks, max_stocks, idx, task,
                  batch_picks, picks, fetched, raised>>

----------------------------------------------------------------------------
(* Bounds of the model *)

MaxRows == 51           \* longest series length handed to analyze_stock
MaxCandidates == 3      \* longest candidate list handed to the allocator
MaxPositionsArg == 3    \* largest max_positions argument
MaxUniverse == 3        \* instruments in the universe of a batch run
MaxPoolUniverse == 4    \* instruments in the universe of a thread-pool run
MaxPoolWorkers == 2     \* largest max_workers of a thread-pool run
MaxPoolBatch == 2       \* largest batch_size of a thread-pool run
MaxPrices == 4          \* longest close column handed to _calculate_rsi
MaxPeriod == 3          \* largest period argument of _calculate_rsi
MaxStd == 1000          \* largest rolling standard deviation searched for

----------------------------------------------------------------------------
(* Floats *)

NaN == -9999

\* +inf: above every finite value of the model
Infinity == 999999

IsNaN(x) == x = NaN
Le(x, y) == ~IsNaN(x) /\ ~IsNaN(y) /\ x <= y
Lt(x, y) == ~IsNaN(x) /\ ~IsNaN(y) /\ x < y
Ge(x, y) == ~IsNaN(x) /\ ~IsNaN(y) /\ x >= y
Gt(x, y) == ~IsNaN(x) /\ ~IsNaN(y) /\ x > y

Min(a, b) == IF a < b THEN a ELSE b

RECURSIVE SumSeq(_)
SumSeq(s) == IF s = << >> THEN 0 ELSE Head(s) + SumSeq(Tail(s))

----------------------------------------------------------------------------
(* Strategy classes and their configuration *)

Original == "BollingerMeanReversionStrategy"
Fixed    == "BollingerMeanReversionStrategyFixed"
Strategies == {Original, Fixed}

\* Variant: the original class screens with the fixed class's parameters
_get_strategy_config_strict(cls) ==
    [rsi_period |-> 14, rsi_oversold |-> 30, rsi_overbought |-> 70,
     macd_fast |-> 12, macd_slow |-> 26, macd_signal |-> 9,
     volume_ma_period |-> 20, min_volume_ratio |-> 150,
     max_position_ratio |-> 10, confidence_threshold |-> 70]

_get_strategy_config(cls) ==
    IF cls = Original
    THEN [rsi_period |-> 14, rsi_oversold |-> 15, rsi_overbought |-> 85,
          macd_fast |-> 12, macd_slow |-> 26, macd_signal |-> 9,
          volume_ma_period |-> 20, min_volume_ratio |-> 80,
          max_position_ratio |-> 10, confidence_threshold |-> 50]
    ELSE [rsi_period |-> 14, rsi_oversold |-> 30, rsi_overbought |-> 70,
          macd_fast |-> 12, macd_slow |-> 26, macd_signal |-> 9,
          volume_ma_period |-> 20, min_volume_ratio |-> 150,
          max_position_ratio |-> 10, confidence_threshold |-> 70]

MinRows == 50

\* BollingerBands.period: bb_config.get('period', 20)
bb_period == 20

----------------------------------------------------------------------------
(* Indicator engine: the latest row of the frame *)

\* Division of two numpy floats, d >= 0: 0/0 is NaN and x/0 is +inf or -inf
\* (num = +1 or -1 over den = 0); no exception is raised.
NaNFrac == [nan |-> TRUE, num |-> 0, den |-> 1]

Frac(n, d) ==
    IF d # 0 THEN [nan |-> FALSE, num |-> n, den |-> d]
    ELSE IF n = 0 THEN NaNFrac
    ELSE [nan |-> FALSE, num |-> (IF n > 0 THEN 1 ELSE -1), den |-> 0]

\* q <= h/100, q >= h/100, ... for a fraction q with denominator >= 0
FracLe(q, h) == ~q.nan /\ q.num * 100 <= h * q.den
FracLt(q, h) == ~q.nan /\ q.num * 100 <  h * q.den
FracGe(q, h) == ~q.nan /\ q.num * 100 >= h * q.den
FracGt(q, h) == ~q.nan /\ q.num * 100 >  h * q.den

\* BollingerBands.calculate on one row whose rolling mean and rolling sample
\* standard deviation are row.ma and row.std (std_dev = 2.0).
BollingerBands_calculate(row) ==
    LET full  == ~IsNaN(row.ma) /\ ~IsNaN(row.std)
        upper == IF full THEN row.ma + 2 * row.std ELSE NaN
        lower == IF full THEN row.ma - 2 * row.std ELSE NaN
    IN  [close |-> row.close, ma |-> row.ma, std |-> row.std,
         upper_band |-> upper, lower_band |-> lower,
         bb_position |-> IF full THEN Frac(row.close - lower, upper - lower)
                         ELSE NaNFrac,
         rsi |-> row.rsi, macd |-> row.macd, macd_signal |-> row.macd_signal,
         volume_ratio |-> row.volume_ratio,
         price_momentum |-> row.price_momentum]

\* Columns of the frame after BollingerBands.calculate and the strategy's
\* own indicator columns have been added to the input columns.
InputColumns == {"open", "high", "low", "close", "volume"}

BollingerColumns == {"ma", "std", "upper_band", "lower_band", "bb_position"}

_calculate_all_indicators_columns(cls) ==
    InputColumns \cup BollingerColumns \cup
    {"rsi", "macd", "macd_signal", "macd_histogram", "volume_ma",
     "volume_ratio", "price_momentum"} \cup
    (IF cls = Original THEN {"volatility"} ELSE {})

\* Columns analyze_stock reads from the frame after the signals are built.
analyze_stock_reads(cls) ==
    IF cls = Original
    THEN {"close", "upper_band", "ma", "lower_band", "bb_position", "rsi",
          "macd_signal", "volume_ratio"}
    ELSE {"close", "bb_upper", "bb_middle", "bb_lower", "bb_position", "rsi",
          "macd_signal", "volume_ratio"}

----------------------------------------------------------------------------
(* Indicator engine: rolling computations over a column *)

\* The last `window` values of a column
LastWindow(xs, window) == SubSeq(xs, Len(xs) - window + 1, Len(xs))

\* xs.rolling(window).mean().iloc[-1] as the exact fraction sum / window; NaN
\* when the column has fewer than `window` rows (min_periods = window) or
\* holds a NaN inside the window.
rolling_sum(xs, window) ==
    IF Len(xs) < window THEN NaN
    ELSE IF \E k \in 1..window : IsNaN(LastWindow(xs, window)[k]) THEN NaN
    ELSE SumSeq(LastWindow(xs, window))

\* prices.diff(): the first row has no predecessor
diff(prices) ==
    [i \in 1..Len(prices) |-> IF i = 1 THEN NaN ELSE prices[i] - prices[i - 1]]

\* delta.where(delta > 0, 0)   and   -delta.where(delta < 0, 0)
gain_column(delta) ==
    [i \in 1..Len(delta) |-> IF Gt(delta[i], 0) THEN delta[i] ELSE 0]

loss_column(delta) ==
    [i \in 1..Len(delta) |-> IF Lt(delta[i], 0) THEN 0 - delta[i] ELSE 0]

\* _calculate_rsi(prices, period).iloc[-1], in RSI points rounded down (exact
\* at 0 and at 100).  gain and loss are the rolling means sum / period, so
\* rs = gain / loss is the ratio of the two sums; float division gives NaN
\* for 0/0 and inf for x/0, 100 / (1 + inf) is 0 and NaN propagates.
_calculate_rsi(prices, period) ==
    LET delta == diff(prices)
        gain  == rolling_sum(gain_column(delta), period)
        loss  == rolling_sum(loss_column(delta), period)
        rs    == IF IsNaN(gain) \/ IsNaN(loss) THEN NaNFrac ELSE Frac(gain, loss)
    IN  IF rs.nan THEN NaN
        ELSE IF rs.den = 0 THEN 100 - 0
        ELSE 100 - (100 * rs.den) \div (rs.den + rs.num)
             - (IF (100 * rs.den) % (rs.den + rs.num) = 0 THEN 0 ELSE 1)

\* xs.rolling(window).mean().iloc[-1], rounded down to the unit of xs
rolling_mean(xs, window) ==
    IF IsNaN(rolling_sum(xs, window)) THEN NaN
    ELSE rolling_sum(xs, window) \div window

\* window * sum(x^2) - sum(x)^2 over the trailing window: the sample variance
\* times window * (window - 1); 0 exactly when the window is constant
SumSquares(xs) == SumSeq([i \in 1..Len(xs) |-> xs[i] * xs[i]])

rolling_var_num(xs, window) ==
    LET w == LastWindow(xs, window)
    IN  window * SumSquares(w) - SumSeq(w) * SumSeq(w)

\* xs.rolling(window).std().iloc[-1] (sample standard deviation), rounded up
\* to the unit of xs: 0 exactly when the window is constant
rolling_std(xs, window) ==
    IF IsNaN(rolling_sum(xs, window)) THEN NaN
    ELSE LET v == rolling_var_num(xs, window)
         IN  CHOOSE s \in 0..MaxStd :
                /\ s * s * window * (window - 1) >= v
                /\ s = 0 \/ (s - 1) * (s - 1) * window * (window - 1) < v

\* Sum of xs[lo..hi], halving the range
RECURSIVE SumRange(_, _, _)
SumRange(xs, lo, hi) ==
    IF lo > hi THEN 0
    ELSE IF lo = hi THEN xs[lo]
    ELSE LET mid == (lo + hi) \div 2
         IN  SumRange(xs, lo, mid) + SumRange(xs, mid + 1, hi)

\* (1 - alpha)^k with alpha = 2 / (span + 1), in units of 1 / WeightScale
WeightScale == 10000

RECURSIVE ewm_weight(_, _)
ewm_weight(span, k) ==
    IF k = 0 THEN WeightScale
    ELSE IF k % 2 = 0
    THEN LET half == ewm_weight(span, k \div 2)
         IN  (half * half) \div WeightScale
    ELSE (ewm_weight(span, k - 1) * (span - 1)) \div (span + 1)

\* xs.ewm(span=span).mean() (adjust=True):
\*     y[t] = sum_k (1 - alpha)^k * x[t - k] / sum_k (1 - alpha)^k , k = 0..t
\* computed as x[t] + sum_k w[k] * (x[t - k] - x[t]) / sum_k w[k] and rounded
\* down to the unit of xs.  On a constant column y[t] = x[t] exactly, as in
\* pandas, which skips the update when the running mean equals the new value.
ewm_mean(xs, span) ==
    LET n == Len(xs)
        w == SubSeq([k \in 1..n |-> ewm_weight(span, k - 1)], 1, n)
        y(t) == LET dev == [k \in 1..t |-> w[k] * (xs[t - k + 1] - xs[t])]
                IN  xs[t] + SumRange(dev, 1, t) \div SumRange(w, 1, t)
    IN  SubSeq([t \in 1..n |-> y(t)], 1, n)

\* _calculate_macd(prices): the macd and signal columns, in hundredths of
\* the unit of prices
_calculate_macd(cls, prices) ==
    LET cfg      == _get_strategy_config(cls)
        fine     == [i \in 1..Len(prices) |-> 100 * prices[i]]
        ema_fast == ewm_mean(fine, cfg.macd_fast)
        ema_slow == ewm_mean(fine, cfg.macd_slow)
        macd     == SubSeq([i \in 1..Len(prices) |->
                                ema_fast[i] - ema_slow[i]], 1, Len(prices))
    IN  [macd |-> macd, signal |-> ewm_mean(macd, cfg.macd_signal)]

\* data['volume'] / data['volume_ma'] on the last row, in hundredths rounded
\* down (0/0 is NaN, x/0 is inf: above every threshold)
volume_ratio_last(cls, volume) ==
    LET window == _get_strategy_config(cls).volume_ma_period
        total  == rolling_sum(volume, window)
        last   == volume[Len(volume)]
    IN  IF IsNaN(total) THEN NaN
        ELSE IF total = 0 THEN (IF last = 0 THEN NaN ELSE Infinity)
        ELSE (100 * window * last) \div total

\* data['close'].pct_change(5) on the last row, in hundredths rounded down
pct_change(prices, periods) ==
    IF Len(prices) <= periods THEN NaN
    ELSE LET last  == prices[Len(prices)]
             base  == prices[Len(prices) - periods]
         IN  IF base = 0 THEN (IF last = 0 THEN NaN ELSE Infinity)
             ELSE (100 * (last - base)) \div base

----------------------------------------------------------------------------
(* Signal classifier *)

BandLabels     == {"STRONG_OVERSOLD", "OVERSOLD_REBOUND",
                   "STRONG_OVERBOUGHT", "OVERBOUGHT_PULLBACK"}
RsiLabels      == {"RSI_OVERSOLD", "RSI_OVERBOUGHT"}
MacdLabels     == {"GOLDEN_CROSS", "DEATH_CROSS"}
VolumeLabels   == {"VOLUME_SPIKE"}
MomentumLabels == {"MOMENTUM_UP", "MOMENTUM_DOWN"}

\* prev = data.iloc[-2] if len(data) > 1 else latest
PrevRow(f) ==
    IF f.rows > 1 THEN f.prev
    ELSE [macd |-> f.latest.macd, macd_signal |-> f.latest.macd_signal]

bb_signals(cls, bb) ==
    IF cls = Original
    THEN IF FracLe(bb, 10) THEN {"STRONG_OVERSOLD"}
         ELSE IF FracLe(bb, 20) THEN {"OVERSOLD_REBOUND"}
         ELSE IF FracGe(bb, 90) THEN {"STRONG_OVERBOUGHT"}
         ELSE IF FracGe(bb, 80) THEN {"OVERBOUGHT_PULLBACK"}
         ELSE {}
    ELSE IF FracGt(bb, 100) THEN {"STRONG_OVERBOUGHT"}
         ELSE IF FracLt(bb, 0) THEN {"STRONG_OVERSOLD"}
         ELSE IF FracGt(bb, 80) THEN {"OVERBOUGHT_PULLBACK"}
         ELSE IF FracLt(bb, 20) THEN {"OVERSOLD_REBOUND"}
         ELSE {}

rsi_signals(cls, rsi) ==
    LET cfg == _get_strategy_config(cls)
    IN  IF cls = Original
        THEN IF Le(rsi, cfg.rsi_oversold) THEN {"RSI_OVERSOLD"}
             ELSE IF Ge(rsi, cfg.rsi_overbought) THEN {"RSI_OVERBOUGHT"}
             ELSE {}
        ELSE IF Gt(rsi, cfg.rsi_overbought) THEN {"RSI_OVERBOUGHT"}
             ELSE IF Lt(rsi, cfg.rsi_oversold) THEN {"RSI_OVERSOLD"}
             ELSE {}

macd_signals_steady(latest, prev) ==
    IF Gt(latest.macd, latest.macd_signal) THEN {"GOLDEN_CROSS"}
    ELSE IF Lt(latest.macd, latest.macd_signal) THEN {"DEATH_CROSS"}
    ELSE {}

macd_signals(latest, prev) ==
    IF Gt(latest.macd, latest.macd_signal) /\ Le(prev.macd, prev.macd_signal)
    THEN {"GOLDEN_CROSS"}
    ELSE IF Lt(latest.macd, latest.macd_signal) /\ Ge(prev.macd, prev.macd_signal)
    THEN {"DEATH_CROSS"}
    ELSE {}

volume_signals_strict(cls, volume_ratio) ==
    IF Gt(volume_ratio, _get_strategy_config(cls).min_volume_ratio)
    THEN {"VOLUME_SPIKE"}
    ELSE {}

volume_signals(cls, volume_ratio) ==
    LET cfg == _get_strategy_config(cls)
    IN  IF cls = Original
        THEN IF Ge(volume_ratio, cfg.min_volume_ratio) THEN {"VOLUME_SPIKE"} ELSE {}
        ELSE IF Gt(volume_ratio, cfg.min_volume_ratio) THEN {"VOLUME_SPIKE"} ELSE {}

momentum_signals(cls, momentum) ==
    IF cls = Original
    THEN IF Gt(momentum, 5) THEN {"MOMENTUM_UP"}
         ELSE IF Lt(momentum, -5) THEN {"MOMENTUM_DOWN"}
         ELSE {}
    ELSE IF Gt(momentum, 2) THEN {"MOMENTUM_UP"}
         ELSE IF Lt(momentum, -2) THEN {"MOMENTUM_DOWN"}
         ELSE {}

Flag(b) == IF b THEN 1 ELSE 0

buy_signals_bullish_only(cls, s) ==
    Cardinality(s.bb_signals \cap {"STRONG_OVERSOLD", "OVERSOLD_REBOUND"})
    + Cardinality(s.rsi_signals \cap {"RSI_OVERSOLD"})
    + Cardinality(s.macd_signals \cap {"GOLDEN_CROSS"})

buy_signals(cls, s) ==
    IF cls = Original
    THEN Cardinality(s.bb_signals) + Cardinality(s.rsi_signals)
         + Cardinality(s.macd_signals)
    ELSE Flag("STRONG_OVERSOLD" \in s.bb_signals \/ "OVERSOLD_REBOUND" \in s.bb_signals)
         + Flag("RSI_OVERSOLD" \in s.rsi_signals)
         + Flag("GOLDEN_CROSS" \in s.macd_signals)
         + Flag("VOLUME_SPIKE" \in s.volume_signals)
         + Flag("MOMENTUM_UP" \in s.momentum_signals)

sell_signals(cls, s) ==
    Flag("STRONG_OVERBOUGHT" \in s.bb_signals \/ "RSI_OVERBOUGHT" \in s.rsi_signals)

overall_signal(cls, s) ==
    IF buy_signals(cls, s) > sell_signals(cls, s) THEN "BUY"
    ELSE IF sell_signals(cls, s) > buy_signals(cls, s) THEN "SELL"
    ELSE "HOLD"

_analyze_signals(cls, f) ==
    LET latest == f.latest
        prev   == PrevRow(f)
        s == [bb_signals       |-> bb_signals(cls, latest.bb_position),
              rsi_signals      |-> rsi_signals(cls, latest.rsi),
              macd_signals     |-> macd_signals(latest, prev),
              volume_signals   |-> volume_signals(cls, latest.volume_ratio),
              momentum_signals |-> momentum_signals(cls, latest.price_momentum),
              overall_signal   |-> "HOLD"]
    IN  [s EXCEPT !.overall_signal = overall_signal(cls, s)]

----------------------------------------------------------------------------
(* Composite scorer *)

_calculate_composite_score_unclamped(s) ==
    50
    + (IF "STRONG_OVERSOLD" \in s.bb_signals THEN 30
       ELSE IF "OVERSOLD_REBOUND" \in s.bb_signals THEN (30 * 7) \div 10
       ELSE 0)
    + (IF "RSI_OVERSOLD" \in s.rsi_signals THEN 20 ELSE 0)
    + (IF "GOLDEN_CROSS" \in s.macd_signals THEN 20 ELSE 0)
    + (IF "VOLUME_SPIKE" \in s.volume_signals THEN 15 ELSE 0)
    + (IF "MOMENTUM_UP" \in s.momentum_signals THEN 15 ELSE 0)

_calculate_composite_score_both_bands(s) ==
    Min(50
        + (IF "STRONG_OVERSOLD" \in s.bb_signals THEN 30 ELSE 0)
        + (IF "OVERSOLD_REBOUND" \in s.bb_signals THEN (30 * 7) \div 10 ELSE 0)
        + (IF "RSI_OVERSOLD" \in s.rsi_signals THEN 20 ELSE 0)
        + (IF "GOLDEN_CROSS" \in s.macd_signals THEN 20 ELSE 0)
        + (IF "VOLUME_SPIKE" \in s.volume_signals THEN 15 ELSE 0)
        + (IF "MOMENTUM_UP" \in s.momentum_signals THEN 15 ELSE 0),
        100)

_calculate_composite_score(s) ==
    LET base == 50
        bb   == IF "STRONG_OVERSOLD" \in s.bb_signals THEN 30
                ELSE IF "OVERSOLD_REBOUND" \in s.bb_signals THEN (30 * 7) \div 10
                ELSE 0
        rsi  == IF "RSI_OVERSOLD" \in s.rsi_signals THEN 20 ELSE 0
        macd == IF "GOLDEN_CROSS" \in s.macd_signals THEN 20 ELSE 0
        vol  == IF "VOLUME_SPIKE" \in s.volume_signals THEN 15 ELSE 0
        mom  == IF "MOMENTUM_UP" \in s.momentum_signals THEN 15 ELSE 0
    IN  Min(base + bb + rsi + macd + vol + mom, 100)

----------------------------------------------------------------------------
(* Trading-advice generator *)

_assess_risk_level_two_tiers(s) ==
    IF "VOLUME_SPIKE" \in s.volume_signals \/ "GOLDEN_CROSS" \in s.macd_signals
       \/ "MOMENTUM_UP" \in s.momentum_signals
    THEN "low"
    ELSE "high"

_assess_risk_level(s) ==
    LET risk_factors == Flag("VOLUME_SPIKE" \in s.volume_signals)
                        + Flag("GOLDEN_CROSS" \in s.macd_signals)
                        + Flag("MOMENTUM_UP" \in s.momentum_signals)
    IN  IF risk_factors >= 2 THEN "low"
        ELSE IF risk_factors >= 1 THEN "medium"
        ELSE "high"

_estimate_holding_period(s) ==
    IF "STRONG_OVERSOLD" \in s.bb_signals THEN "long"
    ELSE IF "OVERSOLD_REBOUND" \in s.bb_signals THEN "medium"
    ELSE "short"

\* score in hundredths times max_position_ratio in hundredths: 1/10000
_calculate_position_size(cls, sc) ==
    _get_strategy_config(cls).max_position_ratio * sc

\* bb_data = [upper, middle, lower] in price units; result in 1/100 price unit
_calculate_target_price_flat(cls, s, bb_position, current_price, bb_data) ==
    IF cls = Original THEN current_price * 105 ELSE current_price * 115

_calculate_target_price(cls, s, bb_position, current_price, bb_data) ==
    IF cls = Original
    THEN IF FracLe(bb_position, 20) THEN bb_data.middle * 100
         ELSE IF FracGe(bb_position, 80) THEN bb_data.middle * 100
         ELSE current_price * 105
    ELSE IF current_price = 0 THEN 0
         ELSE IF "STRONG_OVERSOLD" \in s.bb_signals THEN bb_data.middle * 100
         ELSE IF "OVERSOLD_REBOUND" \in s.bb_signals THEN bb_data.middle * 105
         ELSE IF "STRONG_OVERBOUGHT" \in s.bb_signals THEN bb_data.middle * 100
         ELSE current_price * 115

stop_loss_ratios_flat(risk_level) == 8

stop_loss_ratios(risk_level) ==
    IF risk_level = "low" THEN 5
    ELSE IF risk_level = "medium" THEN 8
    ELSE IF risk_level = "high" THEN 12
    ELSE 8

_calculate_stop_loss(cls, s, bb_position, risk_level, current_price, bb_data) ==
    IF cls = Original
    THEN IF FracLe(bb_position, 20) THEN bb_data.lower * 100
         ELSE IF FracGe(bb_position, 80) THEN bb_data.upper * 100
         ELSE current_price * (100 - stop_loss_ratios(risk_level))
    ELSE IF current_price = 0 THEN 0
         ELSE LET \* stop_loss 0.08 scaled by 0.8 / 1.2 / 1, in thousandths
                  ratio == IF "STRONG_OVERSOLD" \in s.bb_signals THEN 64
                           ELSE IF "STRONG_OVERBOUGHT" \in s.bb_signals THEN 96
                           ELSE 80
              IN  \* round(current_price * (1 - ratio), 2)
                  (current_price * (1000 - ratio) + 5) \div 10

\* signals['overall_signal'] == 'BUY' and score >= confidence_threshold
advice_gate_any_buy(cls, s, sc) == s.overall_signal = "BUY"

advice_gate(cls, s, sc) ==
    /\ s.overall_signal = "BUY"
    /\ sc >= _get_strategy_config(cls).confidence_threshold

_generate_trading_advice(cls, s, sc, current_price, bb_data) ==
    LET default == [action |-> s.overall_signal, confidence |-> sc,
                   target_price |-> 0, stop_loss |-> 0, position_size |-> 0,
                   holding_period |-> "medium", risk_level |-> "medium",
                   reasoning |-> {}]
        bb_position == Frac(current_price - bb_data.lower,
                            bb_data.upper - bb_data.lower)
        risk_level == _assess_risk_level(s)
    IN  IF advice_gate(cls, s, sc)
        THEN [action |-> s.overall_signal, confidence |-> sc,
              target_price |-> _calculate_target_price(cls, s, bb_position,
                                                       current_price, bb_data),
              stop_loss |-> _calculate_stop_loss(cls, s, bb_position, risk_level,
                                                 current_price, bb_data),
              position_size |-> _calculate_position_size(cls, sc),
              holding_period |-> _estimate_holding_period(s),
              risk_level |-> risk_level,
              reasoning |-> s.bb_signals \cup s.rsi_signals \cup s.macd_signals
                            \cup s.volume_signals \cup s.momentum_signals]
        ELSE default

----------------------------------------------------------------------------
(* analyze_stock *)

\* The empty dict {} ; "computed" records which stages of the pipeline ran.
EmptyResult(stages) == [keys |-> {}, computed |-> stages]

ResultKeys == {"stock_code", "current_price", "bb_position", "rsi",
               "macd_signal", "volume_ratio", "signals", "composite_score",
               "trading_advice", "analysis_date", "risk_metrics"}

_calculate_all_indicators(cls, f) ==
    [f EXCEPT !.latest = BollingerBands_calculate(f.latest),
              !.columns = _calculate_all_indicators_columns(cls)]

\* data.empty or len(data) < 50
too_short_only_empty(f) == f.rows = 0

too_short(f) == f.rows = 0 \/ f.rows < MinRows

analyze_stock(cls, f) ==
    IF too_short(f) THEN EmptyResult({})
    ELSE
      LET data   == _calculate_all_indicators(cls, f)
          s      == _analyze_signals(cls, data)
          sc     == _calculate_composite_score(s)
          latest == data.latest
      IN  IF ~(analyze_stock_reads(cls) \subseteq data.columns)
          THEN \* KeyError inside the try block: logged, return {}
               EmptyResult({"indicators", "signals", "score"})
          ELSE [keys |-> ResultKeys,
                computed |-> {"indicators", "signals", "score", "advice"},
                current_price |-> latest.close,
                bb_position |-> latest.bb_position,
                rsi |-> latest.rsi,
                macd_signal |-> latest.macd_signal,
                volume_ratio |-> latest.volume_ratio,
                signals |-> s,
                composite_score |-> sc,
                trading_advice |->
                    _generate_trading_advice(cls, s, sc, latest.close,
                        [upper |-> latest.upper_band, middle |-> latest.ma,
                         lower |-> latest.lower_band])]

----------------------------------------------------------------------------
(* Inputs of the single-instrument pipeline *)

\* (close, rolling mean, rolling std) of the latest row.  With ma = 100 and
\* std = 5 the band is [90, 110] and bb_position = (close - 90) / 20; a flat
\* window has std = 0 and close = ma.
BandInputs ==
    {[close |-> c, ma |-> 100, std |-> 5] :
        c \in {89, 90, 91, 92, 93, 94, 100, 106, 107, 108, 110, 111}}
    \cup {[close |-> 100, ma |-> 100, std |-> 0]}

RsiInputs      == {NaN, 10, 15, 30, 50, 70, 85, 90}
MacdInputs     == {0, 1}
VolumeInputs   == {NaN, 50, 80, 150, 200}
MomentumInputs == {NaN, -6, -5, -2, 0, 2, 5, 6}

MakeRow(b, r, m, g, v, p) ==
    [close |-> b.close, ma |-> b.ma, std |-> b.std, rsi |-> r, macd |-> m,
     macd_signal |-> g, volume_ratio |-> v, price_momentum |-> p]

\* The rsi window (14 deltas) and the momentum lag (5 rows) lie inside the
\* band window (20 rows): on a zero-variance window the closes are equal, so
\* gain = loss = 0 and rsi = 0/0, and pct_change(5) = 0.
RowConsistent(row) ==
    row.std = 0 => (row.close = row.ma /\ IsNaN(row.rsi)
                    /\ row.price_momentum = 0)

Rows == {row \in {MakeRow(b, r, m, g, v, p) :
                    b \in BandInputs, r \in RsiInputs, m \in MacdInputs,
                    g \in MacdInputs, v \in VolumeInputs,
                    p \in MomentumInputs} : RowConsistent(row)}

SampleRows == {row \in {MakeRow(b, r, m, g, v, p) :
                    b \in {x \in BandInputs : x.close \in {89, 93, 100, 108}},
                    r \in {NaN, 10, 50, 90}, m \in MacdInputs,
                    g \in MacdInputs, v \in {50, 200}, p \in {0, 6}} :
                RowConsistent(row)}

PrevRows == [macd : MacdInputs, macd_signal : MacdInputs]

BlankRow == MakeRow([close |-> 0, ma |-> 0, std |-> 0], NaN, 0, 0, NaN, NaN)

EmptyFrame == [rows |-> 0, columns |-> InputColumns,
               latest |-> BlankRow, prev |-> [macd |-> 0, macd_signal |-> 0]]

\* Raw frames of n rows as the series provider returns them.
RawFrames(n, rowset) ==
    IF n = 0 THEN {EmptyFrame}
    ELSE IF n = 1
    THEN {[rows |-> 1, columns |-> InputColumns, latest |-> r,
           prev |-> [macd |-> r.macd, macd_signal |-> r.macd_signal]] :
            r \in rowset}
    ELSE {[rows |-> n, columns |-> InputColumns, latest |-> r, prev |-> q] :
            r \in rowset, q \in PrevRows}

NoSignals == [bb_signals |-> {}, rsi_signals |-> {}, macd_signals |-> {},
              volume_signals |-> {}, momentum_signals |-> {},
              overall_signal |-> "HOLD"]

NotCalled == [keys |-> {}, computed |-> {"not called"}]

NoData == [close |-> << >>, volume |-> << >>]

NoAdvice == [action |-> "not called"]

----------------------------------------------------------------------------
(* Portfolio allocator *)

SimpleRunner == "SimpleStockRunner"
Allocators == {Original, Fixed, SimpleRunner}

\* screened_stocks[:n]
Prefix(s, n) == IF n >= Len(s) THEN s ELSE SubSeq(s, 1, n)

Scores(s) == [i \in 1..Len(s) |-> s[i].composite_score]

\* sorted(..., key=composite_score, reverse=True): stable, descending
RECURSIVE InsertDesc(_, _)
InsertDesc(sorted, x) ==
    IF sorted = << >> THEN <<x>>
    ELSE IF Head(sorted).composite_score >= x.composite_score
         THEN <<Head(sorted)>> \o InsertDesc(Tail(sorted), x)
         ELSE <<x>> \o sorted

RECURSIVE SortDesc(_)
SortDesc(s) ==
    IF s = << >> THEN << >>
    ELSE InsertDesc(SortDesc(SubSeq(s, 1, Len(s) - 1)), s[Len(s)])

\* weight = composite_score / total_score
weight_uniform(stock, total_score, n) == [num |-> 1, den |-> n]

weight(stock, total_score, n) == [num |-> stock.composite_score, den |-> total_score]

Position(stock, w) ==
    [stock_code |-> stock.stock_code, confidence |-> stock.composite_score,
     weight |-> w]

generate_portfolio_recommendation_original(stocks_in, maxp) ==
    IF stocks_in = << >> THEN [raised |-> "none", keys |-> {}]
    ELSE
      LET selected_stocks == Prefix(stocks_in, maxp)
          total_score == SumSeq(Scores(selected_stocks))
      IN  IF selected_stocks # << >> /\ total_score = 0
          THEN \* composite_score / total_score with total_score == 0
               [raised |-> "ZeroDivisionError", keys |-> {}]
          ELSE [raised |-> "none",
                keys |-> {"total_positions", "total_score", "positions",
                          "risk_metrics"},
                total_positions |-> Len(selected_stocks),
                total_score |-> total_score,
                positions |->
                    [i \in 1..Len(selected_stocks) |->
                        Position(selected_stocks[i],
                                 weight(selected_stocks[i], total_score,
                                        Len(selected_stocks)))]]

generate_portfolio_recommendation_fixed(stocks_in, maxp) ==
    IF stocks_in = << >>
    THEN [raised |-> "none", keys |-> {"positions", "total_positions"},
          positions |-> << >>, total_positions |-> 0]
    ELSE
      LET top_stocks == Prefix(stocks_in, maxp)
          total_score == SumSeq(Scores(top_stocks))
          positions ==
              [i \in 1..Len(top_stocks) |->
                  Position(top_stocks[i],
                           IF total_score > 0
                           THEN weight(top_stocks[i], total_score, Len(top_stocks))
                           ELSE [num |-> 1, den |-> Len(top_stocks)])]
      IN  [raised |-> "none", keys |-> {"positions", "total_positions"},
           positions |-> positions, total_positions |-> Len(positions)]

\* SimpleStockRunner._generate_portfolio: sorts, keeps 10, computes no weight
_generate_portfolio(stocks_in) ==
    IF stocks_in = << >>
    THEN [raised |-> "none", keys |-> {"positions", "total_positions"},
          positions |-> << >>, total_positions |-> 0]
    ELSE
      LET top_stocks == Prefix(SortDesc(stocks_in), 10)
          positions ==
              [i \in 1..Len(top_stocks) |->
                  [stock_code |-> top_stocks[i].stock_code,
                   confidence |-> top_stocks[i].composite_score]]
      IN  [raised |-> "none", keys |-> {"positions", "total_positions"},
           positions |-> positions, total_positions |-> Len(positions)]

Allocate(which, stocks_in, maxp) ==
    IF which = Original
    THEN generate_portfolio_recommendation_original(stocks_in, maxp)
    ELSE IF which = Fixed
    THEN generate_portfolio_recommendation_fixed(stocks_in, maxp)
    ELSE _generate_portfolio(stocks_in)

\* Candidate lists: stock_code is the position in the list handed in.
ScoreInputs == {0, 60, 70, 80}

CandidateLists ==
    UNION {
        {[i \in 1..n |-> [stock_code |-> i, composite_score |-> f[i]]] :
            f \in [1..n -> ScoreInputs]} : n \in 0..MaxCandidates}

NotAllocated == [raised |-> "not called", keys |-> {}]

----------------------------------------------------------------------------
(* screen_stocks *)

\* The analysis record of the instrument at position i of the dict
Candidate(i, a) ==
    [stock_code |-> i, composite_score |-> a.composite_score,
     trading_advice |-> a.trading_advice]

\* if analysis and analysis['trading_advice']['action'] == 'BUY' (and, in the
\* original class only, composite_score >= confidence_threshold)
screen_keeps(cls, a) ==
    /\ a.keys # {}
    /\ a.trading_advice.action = "BUY"
    /\ cls = Original =>
          a.composite_score >= _get_strategy_config(cls).confidence_threshold

\* results.sort(key=lambda x: x['composite_score'], reverse=True)
results_sort_skipped(results) == results

results_sort(results) == SortDesc(results)

screen_stocks(cls, dict) ==
    LET analyses == [i \in 1..Len(dict) |-> analyze_stock(cls, dict[i])]
        kept     == SelectSeq([i \in 1..Len(dict) |-> i],
                              LAMBDA i : screen_keeps(cls, analyses[i]))
        results  == [k \in 1..Len(kept) |-> Candidate(kept[k], analyses[kept[k]])]
    IN  results_sort(results)

----------------------------------------------------------------------------
(* Batch runners *)

Sequential == "StockScreener._run_bollinger_screening"
ThreadPool == "OptimizedStockScreener._run_bollinger_screening_optimized"
Collector  == "BollingerStrategyRunnerFixed._get_stock_data"
Runners == {Sequential, ThreadPool, Collector}

max_workers == 8
batch_size == 20

\* OptimizedStockScreener.__init__: self.max_workers = 8, self.batch_size = 20
OptimizedStockScreener_init ==
    [max_workers |-> max_workers, batch_size |-> batch_size]

\* What the collaborators do for one instrument:
\*   fetch_raises    get_latest_data raises
\*   empty           get_latest_data returns an empty frame
\*   short           a non-empty series of fewer than 50 rows that the
\*                   screening conditions reject
\*   analysis_raises a full series; calculate / analyze_signals / the
\*                   screening conditions raise
\*   reject          a full series the screening conditions reject
\*   pick            a full series the screening conditions accept
Behaviours == {"fetch_raises", "empty", "short", "analysis_raises",
               "reject", "pick"}

Universes == UNION {[1..n -> Behaviours] : n \in 0..MaxUniverse}

\* What the configuration file holds:
\*   valid            every section, numeric thresholds and periods
\*   missing_file     the file does not exist
\*   unparsable       the file is not YAML
\*   missing_section  a required section (screening) is absent
\*   non_numeric      bollinger_bands.period is a string
ConfigKinds == {"valid", "missing_file", "unparsable", "missing_section",
                "non_numeric"}

\* Config.__init__ -> _load_config: the exception it raises, or "loaded"
_load_config(c) ==
    IF c = "missing_file" THEN "FileNotFoundError"
    ELSE IF c = "unparsable" THEN "ValueError"
    ELSE "loaded"

\* What the collaborators do for an instrument under the loaded
\* configuration: BollingerBands.calculate passes the configured period to
\* rolling(window=...), which raises on a string for every non-empty series;
\* an absent section is read as {} and every option takes its default.
behaviour(c, b) ==
    IF c = "non_numeric" /\ b \in {"short", "reject", "pick"}
    THEN "analysis_raises"
    ELSE b

\* The body of the screeners' try block for one instrument:
\* "raise", "none" (continue / return None) or "pick".
screen_one(b) ==
    IF b \in {"fetch_raises", "analysis_raises"} THEN "raise"
    ELSE IF b = "pick" THEN "pick"
    ELSE "none"

\* The body of _get_stock_data's try block: "raise", "none" or "pick"
\* (not data.empty and len(data) >= 50).
fetch_one(b) ==
    IF b = "fetch_raises" THEN "raise"
    ELSE IF b \in {"empty", "short"} THEN "none"
    ELSE "pick"

\* try: ... except Exception as e: log; continue
except_Exception_missing(outcome) == outcome

except_Exception(outcome) == IF outcome = "raise" THEN "none" ELSE outcome

\* if max_stocks: stock_list = stock_list.head(max_stocks)
stock_list(u, n) == IF n # 0 THEN Prefix(u, n) ELSE u

\* if result: picks.append(result)
append_result_unchecked(list, i, result) == Append(list, i)

append_result(list, i, result) ==
    IF result = "pick" THEN Append(list, i) ELSE list

\* --- the entry point builds Config(config_file) before it builds a runner
\* (main.py, compare_performance, BollingerStrategyRunnerFixed.__init__); an
\* exception of _load_config ends the process.
LoadConfig ==
    /\ pc = "start"
    /\ pc' = IF _load_config(config) # "loaded" THEN "aborted"
             ELSE IF runner = ThreadPool THEN "submit" ELSE "loop"
    /\ UNCHANGED <<batchVars, pipelineVars, allocVars>>

\* --- StockScreener._run_bollinger_screening: one loop iteration
SequentialIteration ==
    /\ runner = Sequential /\ pc = "loop" /\ idx <= Len(stocks)
    /\ LET r == except_Exception(screen_one(behaviour(config, stocks[idx])))
       IN  /\ fetched' = fetched \cup {idx}
           /\ IF r = "raise"
              THEN /\ raised' = TRUE /\ pc' = "done"
                   /\ UNCHANGED <<picks, idx>>
              ELSE /\ picks' = append_result(picks, idx, r)
                   /\ idx' = idx + 1
                   /\ UNCHANGED <<raised, pc>>
    /\ UNCHANGED <<runner, screener, stocks, max_stocks, task, batch_picks>>
    /\ UNCHANGED <<pipelineVars, allocVars>>

SequentialReturn ==
    /\ runner = Sequential /\ pc = "loop" /\ idx > Len(stocks)
    /\ pc' = "done"
    /\ UNCHANGED <<batchVars, pipelineVars, allocVars>>

\* --- BollingerStrategyRunnerFixed._get_stock_data: one loop iteration
\* (count is len(stock_data_dict): it grows with every insertion)
CollectorIteration ==
    /\ runner = Collector /\ pc = "loop" /\ idx <= Len(stocks)
    /\ Len(picks) < max_stocks
    /\ LET r == except_Exception(fetch_one(stocks[idx]))
       IN  /\ fetched' = fetched \cup {idx}
           /\ IF r = "raise"
              THEN /\ raised' = TRUE /\ pc' = "done"
                   /\ UNCHANGED <<picks, idx>>
              ELSE /\ picks' = append_result(picks, idx, r)
                   /\ idx' = idx + 1
                   /\ UNCHANGED <<raised, pc>>
    /\ UNCHANGED <<runner, screener, stocks, max_stocks, task, batch_picks>>
    /\ UNCHANGED <<pipelineVars, allocVars>>

CollectorReturn ==
    /\ runner = Collector /\ pc = "loop"
    /\ (idx > Len(stocks) \/ Len(picks) >= max_stocks)
    /\ pc' = "done"
    /\ UNCHANGED <<batchVars, pipelineVars, allocVars>>

\* --- OptimizedStockScreener: batches of batch_size, each run on a pool
PoolList == stock_list(stocks, max_stocks)

\* the batch that instrument i belongs to: batches[k] = stock_list[k*20:(k+1)*20]
BatchOf_shifted(i) == i \div screener.batch_size

BatchOf(i) == (i - 1) \div screener.batch_size

Running == {i \in 1..Len(PoolList) : task[i] = "running"}

\* ThreadPoolExecutor(max_workers=n): a queued work item starts only on one
\* of at most n threads
idle_thread_unbounded(running, n) == TRUE

idle_thread(running, n) == Cardinality(running) < n

\* executor.submit(self._process_single_stock, row, ...) for the next row
Submit ==
    /\ runner = ThreadPool /\ pc = "submit"
    /\ idx <= Len(PoolList)
    /\ task' = [task EXCEPT ![idx] = "queued"]
    /\ idx' = idx + 1
    /\ pc' = IF idx + 1 > Len(PoolList) \/ BatchOf(idx + 1) # BatchOf(idx)
             THEN "collect" ELSE "submit"
    /\ UNCHANGED <<runner, screener, stocks, max_stocks, batch_picks, picks,
                   fetched, raised>>
    /\ UNCHANGED <<pipelineVars, allocVars>>

\* a pool thread takes a queued task and calls _process_single_stock
WorkerStart(i) ==
    /\ runner = ThreadPool
    /\ task[i] = "queued"
    /\ idle_thread(Running, screener.max_workers)
    /\ task' = [task EXCEPT ![i] = "running"]
    /\ fetched' = fetched \cup {i}
    /\ UNCHANGED <<runner, screener, stocks, max_stocks, pc, idx,
                   batch_picks, picks, raised>>
    /\ UNCHANGED <<pipelineVars, allocVars>>

\* _process_single_stock returns (its own try/except turns a raise into None);
\* the future holds the returned value
_process_single_stock(b) == except_Exception(screen_one(b))

WorkerFinish(i) ==
    /\ runner = ThreadPool
    /\ task[i] = "running"
    /\ task' = [task EXCEPT ![i] = "finished"]
    /\ UNCHANGED <<runner, screener, stocks, max_stocks, pc, idx, batch_picks, picks,
                   fetched, raised>>
    /\ UNCHANGED <<pipelineVars, allocVars>>

\* for future in as_completed(...): result = future.result(); if result: append
Collect(i) ==
    /\ runner = ThreadPool /\ pc = "collect"
    /\ task[i] = "finished"
    /\ LET r == except_Exception(
                    _process_single_stock(behaviour(config, stocks[i])))
       IN  IF r = "raise"
           THEN /\ raised' = TRUE /\ pc' = "done"
                /\ UNCHANGED <<batch_picks, task>>
           ELSE /\ batch_picks' = append_result(batch_picks, i, r)
                /\ task' = [task EXCEPT ![i] = "collected"]
                /\ UNCHANGED <<raised, pc>>
    /\ UNCHANGED <<runner, screener, stocks, max_stocks, idx, picks, fetched>>
    /\ UNCHANGED <<pipelineVars, allocVars>>

\* for batch_idx, batch in enumerate(batches): the loop ends after the last
\* batch
after_batch_again(next, n) == "submit"

after_batch(next, n) == IF next > n THEN "done" ELSE "submit"

\* picks.extend(batch_picks)
extend_front(list, batch) == batch \o list

extend(list, batch) == list \o batch

\* the with block exits once every future was yielded; picks.extend(batch_picks)
BatchReturn ==
    /\ runner = ThreadPool /\ pc = "collect"
    /\ \A i \in 1..(idx - 1) : task[i] = "collected"
    /\ picks' = extend(picks, batch_picks)
    /\ batch_picks' = << >>
    /\ pc' = after_batch(idx, Len(PoolList))
    /\ UNCHANGED <<runner, screener, stocks, max_stocks, idx, task, fetched,
                   raised>>
    /\ UNCHANGED <<pipelineVars, allocVars>>

\* for batch in batches: with an empty stock list there is no batch
PoolReturnEmpty ==
    /\ runner = ThreadPool /\ pc = "submit" /\ Len(PoolList) = 0
    /\ pc' = "done"
    /\ UNCHANGED <<batchVars, pipelineVars, allocVars>>

----------------------------------------------------------------------------
(* Specifications *)

IdleSeries ==
    /\ series = NoData /\ rsi_period = 0 /\ rsi_last = NaN

IdleAdvice == advice = NoAdvice

IdleInputs == stock_data_dict = << >> /\ config = "valid"

IdlePipeline ==
    /\ strategy = Original /\ frame = EmptyFrame /\ signals = NoSignals
    /\ score = NaN /\ analysis = NotCalled /\ IdleAdvice /\ IdleSeries
    /\ IdleInputs

IdleAlloc ==
    /\ screened = << >> /\ max_positions = 0 /\ portfolio = NotAllocated

IdleBatch ==
    /\ runner = "none" /\ screener = OptimizedStockScreener_init
    /\ stocks = << >> /\ max_stocks = 0 /\ idx = 1
    /\ task = << >> /\ batch_picks = << >> /\ picks = << >>
    /\ fetched = {} /\ raised = FALSE

\* --- the composite scorer applied to every combination of labels
SignalSets ==
    [bb_signals : SUBSET BandLabels, rsi_signals : SUBSET RsiLabels,
     macd_signals : SUBSET MacdLabels, volume_signals : SUBSET VolumeLabels,
     momentum_signals : SUBSET MomentumLabels,
     overall_signal : {"BUY", "SELL", "HOLD"}]

InitScore ==
    /\ strategy \in Strategies /\ signals \in SignalSets
    /\ frame = EmptyFrame /\ score = NaN /\ analysis = NotCalled
    /\ IdleAdvice /\ IdleSeries /\ IdleInputs
    /\ IdleAlloc /\ IdleBatch /\ pc = "call"

CalculateCompositeScore ==
    /\ pc = "call"
    /\ score' = _calculate_composite_score(signals)
    /\ pc' = "return"
    /\ UNCHANGED <<strategy, frame, signals, analysis, advice, seriesVars,
                   inputVars, allocVars, batchVars>>

SpecScore == InitScore /\ [][CalculateCompositeScore]_vars

\* --- the signal classifier applied to frames of one and of two rows
InitSignals ==
    /\ strategy \in Strategies
    /\ \E n \in 1..2 : \E raw \in RawFrames(n, Rows) :
          frame = _calculate_all_indicators(strategy, raw)
    /\ signals = NoSignals /\ score = NaN /\ analysis = NotCalled
    /\ IdleAdvice /\ IdleSeries /\ IdleInputs
    /\ IdleAlloc /\ IdleBatch /\ pc = "call"

AnalyzeSignals ==
    /\ pc = "call"
    /\ signals' = _analyze_signals(strategy, frame)
    /\ pc' = "return"
    /\ UNCHANGED <<strategy, frame, score, analysis, advice, seriesVars,
                   inputVars, allocVars, batchVars>>

SpecSignals == InitSignals /\ [][AnalyzeSignals]_vars

\* --- analyze_stock applied to series of 0 .. MaxRows rows
InitAnalyze ==
    /\ strategy \in Strategies
    /\ \E n \in 0..MaxRows : frame \in RawFrames(n, SampleRows)
    /\ signals = NoSignals /\ score = NaN /\ analysis = NotCalled
    /\ IdleAdvice /\ IdleSeries /\ IdleInputs
    /\ IdleAlloc /\ IdleBatch /\ pc = "call"

AnalyzeStock ==
    /\ pc = "call"
    /\ analysis' = analyze_stock(strategy, frame)
    /\ pc' = "return"
    /\ UNCHANGED <<strategy, frame, signals, score, advice, seriesVars,
                   inputVars, allocVars, batchVars>>

SpecAnalyze == InitAnalyze /\ [][AnalyzeStock]_vars

\* --- the allocators applied to candidate lists in every order
InitAlloc ==
    /\ strategy \in Allocators
    /\ screened \in CandidateLists
    /\ max_positions \in 0..MaxPositionsArg
    /\ portfolio = NotAllocated
    /\ frame = EmptyFrame /\ signals = NoSignals /\ score = NaN
    /\ analysis = NotCalled
    /\ IdleAdvice /\ IdleSeries /\ IdleInputs /\ IdleBatch /\ pc = "call"

GeneratePortfolio ==
    /\ pc = "call"
    /\ portfolio' = Allocate(strategy, screened, max_positions)
    /\ pc' = "return"
    /\ UNCHANGED <<pipelineVars, screened, max_positions, batchVars>>

SpecAlloc == InitAlloc /\ [][GeneratePortfolio]_vars

\* --- _generate_trading_advice applied to every signal dict the classifier
\* can build, to scores around the two thresholds and to prices over the band
ClassifierSignalSets ==
    {s \in SignalSets :
        /\ Cardinality(s.bb_signals) <= 1 /\ Cardinality(s.rsi_signals) <= 1
        /\ Cardinality(s.macd_signals) <= 1
        /\ Cardinality(s.momentum_signals) <= 1}

ScoreArgs == {0, 49, 50, 65, 69, 70, 71, 100}

AdviceRows ==
    {MakeRow(b, IF b.std = 0 THEN NaN ELSE 50, 0, 0, 100, 0) :
        b \in {x \in BandInputs : x.close \in {89, 92, 94, 100, 106, 108, 111}}}

AdviceFrames ==
    {[rows |-> MinRows, columns |-> InputColumns, latest |-> r,
      prev |-> [macd |-> 0, macd_signal |-> 0]] : r \in AdviceRows}

InitAdvice ==
    /\ strategy \in Strategies
    /\ \E raw \in AdviceFrames : frame = _calculate_all_indicators(strategy, raw)
    /\ signals \in ClassifierSignalSets
    /\ score \in ScoreArgs
    /\ analysis = NotCalled /\ IdleAdvice /\ IdleSeries /\ IdleInputs
    /\ IdleAlloc /\ IdleBatch /\ pc = "call"

\* bb_data as analyze_stock builds it from the latest row
bb_data_of(latest) ==
    [upper |-> latest.upper_band, middle |-> latest.ma,
     lower |-> latest.lower_band]

GenerateTradingAdvice ==
    /\ pc = "call"
    /\ advice' = _generate_trading_advice(strategy, signals, score,
                                          frame.latest.close,
                                          bb_data_of(frame.latest))
    /\ pc' = "return"
    /\ UNCHANGED <<strategy, frame, signals, score, analysis, seriesVars,
                   inputVars, allocVars, batchVars>>

SpecAdvice == InitAdvice /\ [][GenerateTradingAdvice]_vars

\* --- screen_stocks applied to dicts of 0 .. MaxCandidates series
ScreenRows ==
    {MakeRow([close |-> 89,  ma |-> 100, std |-> 5], 50, 0, 0, 50, 0),
     MakeRow([close |-> 89,  ma |-> 100, std |-> 5], 10, 1, 0, 200, 6),
     MakeRow([close |-> 93,  ma |-> 100, std |-> 5], 50, 0, 0, 50, 0),
     MakeRow([close |-> 100, ma |-> 100, std |-> 5], 50, 0, 0, 200, 6),
     MakeRow([close |-> 108, ma |-> 100, std |-> 5], 90, 0, 0, 50, 0)}

ScreenFrames ==
    {EmptyFrame}
    \cup {[rows |-> n, columns |-> InputColumns, latest |-> r,
           prev |-> [macd |-> 0, macd_signal |-> 0]] :
            n \in {MinRows - 1, MinRows}, r \in ScreenRows}

InitScreen ==
    /\ strategy \in Strategies
    /\ stock_data_dict \in UNION {[1..n -> ScreenFrames] : n \in 0..MaxCandidates}
    /\ config = "valid"
    /\ frame = EmptyFrame /\ signals = NoSignals /\ score = NaN
    /\ analysis = NotCalled /\ IdleAdvice /\ IdleSeries
    /\ IdleAlloc /\ IdleBatch /\ pc = "call"

ScreenStocks ==
    /\ pc = "call"
    /\ screened' = screen_stocks(strategy, stock_data_dict)
    /\ pc' = "return"
    /\ UNCHANGED <<pipelineVars, max_positions, portfolio, batchVars>>

SpecScreen == InitScreen /\ [][ScreenStocks]_vars

\* --- _calculate_rsi applied to close columns of 1 .. MaxPrices rows
CloseInputs == {10, 11, 12}

CloseColumns == UNION {[1..n -> CloseInputs] : n \in 1..MaxPrices}

FrameOfCloses(closes) ==
    [close |-> closes, volume |-> [i \in 1..Len(closes) |-> 100]]

InitRsi ==
    /\ strategy \in Strategies
    /\ \E closes \in CloseColumns : series = FrameOfCloses(closes)
    /\ rsi_period \in 1..MaxPeriod
    /\ rsi_last = NaN
    /\ frame = EmptyFrame /\ signals = NoSignals /\ score = NaN
    /\ analysis = NotCalled /\ IdleAdvice /\ IdleInputs
    /\ IdleAlloc /\ IdleBatch /\ pc = "call"

CalculateRsi ==
    /\ pc = "call"
    /\ rsi_last' = _calculate_rsi(series.close, rsi_period)
    /\ pc' = "return"
    /\ UNCHANGED <<strategy, frame, signals, score, analysis, advice, series,
                   rsi_period, inputVars, allocVars, batchVars>>

SpecRsi == InitRsi /\ [][CalculateRsi]_vars

\* --- analyze_stock applied to DataFrames built from close/volume columns
\* The frame _calculate_all_indicators works on: the rolling statistics of
\* the last row and the macd columns of the last two rows of a DataFrame df.
FrameOf(cls, df) ==
    IF df.close = << >> THEN EmptyFrame
    ELSE
      LET n    == Len(df.close)
          macd == _calculate_macd(cls, df.close)
      IN  [rows |-> n, columns |-> InputColumns,
           latest |->
               [close |-> df.close[n],
                ma |-> rolling_mean(df.close, bb_period),
                std |-> rolling_std(df.close, bb_period),
                rsi |-> _calculate_rsi(df.close,
                                       _get_strategy_config(cls).rsi_period),
                macd |-> macd.macd[n], macd_signal |-> macd.signal[n],
                volume_ratio |-> volume_ratio_last(cls, df.volume),
                price_momentum |-> pct_change(df.close, 5)],
           prev |-> IF n > 1
                    THEN [macd |-> macd.macd[n - 1],
                          macd_signal |-> macd.signal[n - 1]]
                    ELSE [macd |-> macd.macd[n], macd_signal |-> macd.signal[n]]]

\* Close columns in cents: constant at c, the last row moved by d.
SeriesCloses == {1000, 2000}
SeriesMoves  == {-60, 0, 60}
SeriesRows   == {49, 50, 59, 60, 61}

\* Volume columns: 100 everywhere except the last two rows (a, b).  The
\* ratio of the last row is 20 * b / (1800 + a + b): <<120, 80>> gives 0.80,
\* <<121, 79>> gives 0.79, <<50, 150>> gives 1.50, <<100, 400>> gives 3.47.
\* <<0, 0>> stands for a column of zeros (ratio 0/0).
SeriesVolumes == {<<100, 100>>, <<120, 80>>, <<121, 79>>, <<50, 150>>,
                  <<100, 400>>, <<0, 0>>}

MakeSeries(n, c, d, v) ==
    [close  |-> [i \in 1..n |-> IF i = n THEN c + d ELSE c],
     volume |-> [i \in 1..n |-> IF v = <<0, 0>> THEN 0
                                ELSE IF i = n THEN v[2]
                                ELSE IF i = n - 1 THEN v[1] ELSE 100]]

IsFlat(df) == \A i \in 1..Len(df.close) : df.close[i] = df.close[1]

InitSeries ==
    /\ strategy \in Strategies
    /\ \E n \in SeriesRows, c \in SeriesCloses, d \in SeriesMoves,
          v \in SeriesVolumes : series = MakeSeries(n, c, d, v)
    /\ rsi_period = 1 /\ rsi_last = NaN
    /\ frame = EmptyFrame /\ signals = NoSignals /\ score = NaN
    /\ analysis = NotCalled /\ IdleAdvice /\ IdleInputs
    /\ IdleAlloc /\ IdleBatch /\ pc = "call"

AnalyzeSeries ==
    /\ pc = "call"
    /\ frame' = FrameOf(strategy, series)
    /\ analysis' = analyze_stock(strategy, frame')
    /\ pc' = "return"
    /\ UNCHANGED <<strategy, signals, score, advice, seriesVars, inputVars,
                   allocVars, batchVars>>

SpecSeries == InitSeries /\ [][AnalyzeSeries]_vars

\* --- the per-instrument body of every pipeline path, applied to a series
MeanReversion == "MeanReversionStrategy.analyze_stock"
StrategyPath  == "analyze_stock"
Paths == {Sequential, ThreadPool, MeanReversion, StrategyPath}

\* BollingerBands.calculate(data): the band columns of the last row
calculate(df) ==
    IF df.close = << >> THEN EmptyFrame
    ELSE [rows |-> Len(df.close),
          columns |-> InputColumns \cup BollingerColumns,
          latest |-> BollingerBands_calculate(
                        [BlankRow EXCEPT
                            !.close = df.close[Len(df.close)],
                            !.ma = rolling_mean(df.close, bb_period),
                            !.std = rolling_std(df.close, bb_period)]),
          prev |-> [macd |-> 0, macd_signal |-> 0]]

NoBandSignals == [applied |-> FALSE]

\* BollingerBands.analyze_signals(data): touch labels of the last row
\* (close <= lower_band * 1.01, close >= upper_band * 0.99)
analyze_signals(f) ==
    IF f.rows = 0 THEN [applied |-> TRUE, keys |-> {}]
    ELSE LET latest == f.latest
         IN  [applied |-> TRUE,
              keys |-> {"current_price", "upper_band", "lower_band",
                        "middle_band", "bb_position", "signals"},
              current_price |-> latest.close,
              bb_position |-> latest.bb_position,
              signals |->
                  (IF ~IsNaN(latest.lower_band)
                      /\ 100 * latest.close <= 101 * latest.lower_band
                   THEN {"TOUCH_LOWER"} ELSE {})
                  \cup
                  (IF ~IsNaN(latest.upper_band)
                      /\ 100 * latest.close >= 99 * latest.upper_band
                   THEN {"TOUCH_UPPER"} ELSE {})]

\* _apply_screening_conditions / _apply_screening_conditions_optimized with
\* the default price range [5.00, 100.00] and volume_ratio 1.5
_apply_screening_conditions(path, df, f, sig) ==
    IF sig.keys = {} \/ f.rows = 0 THEN FALSE
    ELSE IF ~(500 <= f.latest.close /\ f.latest.close <= 10000) THEN FALSE
    ELSE IF "TOUCH_LOWER" \in sig.signals THEN TRUE
    ELSE IF FracGe(sig.bb_position, 10) /\ FracLe(sig.bb_position, 30)
    THEN TRUE
    ELSE IF path = ThreadPool
    THEN /\ Len(df.volume) >= 20
         /\ 8 * SumSeq(LastWindow(df.volume, 5))
               > 3 * SumSeq(LastWindow(df.volume, 20))
    ELSE /\ ~IsNaN(rolling_sum(df.volume, 20))
         /\ 40 * df.volume[Len(df.volume)] > 3 * rolling_sum(df.volume, 20)

\* The try block of StockScreener._run_bollinger_screening and of
\* OptimizedStockScreener._process_single_stock, and
\* MeanReversionStrategy.analyze_stock: what each does with a series.
process_series(path, df) ==
    IF df.close = << >>
    THEN [frame |-> EmptyFrame, signals |-> NoBandSignals, pick |-> FALSE]
    ELSE LET f   == calculate(df)
             sig == analyze_signals(f)
         IN  [frame |-> f, signals |-> sig,
              pick |-> IF path = MeanReversion THEN TRUE
                       ELSE _apply_screening_conditions(path, df, f, sig)]

PathRows == {0, 1, 19, 20, 21, 49, 50, 60}

InitPaths ==
    /\ runner \in Paths
    /\ strategy \in (IF runner = StrategyPath THEN Strategies ELSE {Original})
    /\ \E n \in PathRows, c \in SeriesCloses, d \in SeriesMoves,
          v \in SeriesVolumes : series = MakeSeries(n, c, d, v)
    /\ rsi_period = 1 /\ rsi_last = NaN
    /\ frame = EmptyFrame /\ signals = NoBandSignals /\ score = NaN
    /\ analysis = NotCalled /\ IdleAdvice /\ IdleInputs /\ IdleAlloc
    /\ screener = OptimizedStockScreener_init
    /\ stocks = << >> /\ max_stocks = 0 /\ idx = 1 /\ task = << >>
    /\ batch_picks = << >> /\ picks = << >> /\ fetched = {}
    /\ raised = FALSE /\ pc = "call"

\* analyze_stock of a strategy class
RunStrategyPath ==
    /\ pc = "call" /\ runner = StrategyPath
    /\ frame' = FrameOf(strategy, series)
    /\ analysis' = analyze_stock(strategy, frame')
    /\ signals' = IF "signals" \in analysis'.computed
                  THEN [applied |-> TRUE, keys |-> {"signals"}]
                  ELSE NoBandSignals
    /\ pc' = "return"
    /\ UNCHANGED <<strategy, score, advice, seriesVars, inputVars, allocVars,
                   batchVars>>

\* the body of a screener or of MeanReversionStrategy.analyze_stock
RunScreenerPath ==
    /\ pc = "call" /\ runner # StrategyPath
    /\ LET r == process_series(runner, series)
       IN  /\ frame' = r.frame
           /\ signals' = r.signals
           /\ picks' = IF r.pick THEN <<1>> ELSE << >>
    /\ pc' = "return"
    /\ UNCHANGED <<strategy, score, analysis, advice, seriesVars, inputVars,
                   allocVars, runner, screener, stocks, max_stocks, idx, task,
                   batch_picks, fetched, raised>>

SpecPaths == InitPaths /\ [][RunStrategyPath \/ RunScreenerPath]_vars

\* --- the batch runners
Init ==
    /\ IdlePipeline /\ IdleAlloc
    /\ runner \in Runners
    /\ screener = OptimizedStockScreener_init
    /\ stocks \in Universes
    /\ max_stocks \in (IF runner = Sequential THEN {0} ELSE 0..MaxUniverse)
    /\ pc = (IF runner = ThreadPool THEN "submit" ELSE "loop")
    /\ idx = 1
    /\ task = [i \in 1..Len(stocks) |-> "unsubmitted"]
    /\ batch_picks = << >> /\ picks = << >>
    /\ fetched = {} /\ raised = FALSE

Next ==
    \/ SequentialIteration
    \/ SequentialReturn
    \/ CollectorIteration
    \/ CollectorReturn
    \/ Submit
    \/ \E i \in 1..Len(stocks) : WorkerStart(i)
    \/ \E i \in 1..Len(stocks) : WorkerFinish(i)
    \/ \E i \in 1..Len(stocks) : Collect(i)
    \/ BatchReturn
    \/ PoolReturnEmpty

Spec == Init /\ [][Next]_vars

\* --- the thread-pool runner with small pools and batches, so that the
\* pool is saturated and the universe spans several batches
PoolBehaviours == {"fetch_raises", "reject", "pick"}

PoolUniverses == UNION {[1..n -> PoolBehaviours] : n \in 0..MaxPoolUniverse}

InitPool ==
    /\ IdlePipeline /\ IdleAlloc
    /\ runner = ThreadPool
    /\ screener \in [max_workers : 1..MaxPoolWorkers,
                     batch_size : 1..MaxPoolBatch]
    /\ stocks \in PoolUniverses
    /\ max_stocks \in {0, MaxPoolUniverse - 1}
    /\ pc = "submit"
    /\ idx = 1
    /\ task = [i \in 1..Len(stocks) |-> "unsubmitted"]
    /\ batch_picks = << >> /\ picks = << >>
    /\ fetched = {} /\ raised = FALSE

NextPool ==
    \/ Submit
    \/ \E i \in 1..Len(stocks) : WorkerStart(i)
    \/ \E i \in 1..Len(stocks) : WorkerFinish(i)
    \/ \E i \in 1..Len(stocks) : Collect(i)
    \/ BatchReturn
    \/ PoolReturnEmpty

SpecPool == InitPool /\ [][NextPool]_vars

\* The orchestrating thread keeps running, a queued work item is started
\* whenever a pool thread is idle, and every started task eventually returns
\* or raises.
FairPool ==
    /\ WF_vars(Submit \/ (\E i \in 1..Len(stocks) : Collect(i))
               \/ BatchReturn \/ PoolReturnEmpty)
    /\ WF_vars(\E i \in 1..Len(stocks) : WorkerStart(i))
    /\ \A i \in 1..MaxPoolUniverse :
          WF_vars(i <= Len(stocks) /\ WorkerFinish(i))

SpecPoolFair == SpecPool /\ FairPool

\* --- a whole run: the configuration is loaded, then the batch runner runs
InitRun ==
    /\ strategy = Original /\ frame = EmptyFrame /\ signals = NoSignals
    /\ score = NaN /\ analysis = NotCalled /\ IdleAdvice /\ IdleSeries
    /\ stock_data_dict = << >>
    /\ IdleAlloc
    /\ config \in ConfigKinds
    /\ runner \in Runners
    /\ screener = OptimizedStockScreener_init
    /\ stocks \in Universes
    /\ max_stocks \in (IF runner = Sequential THEN {0} ELSE 0..MaxUniverse)
    /\ pc = "start"
    /\ idx = 1
    /\ task = [i \in 1..Len(stocks) |-> "unsubmitted"]
    /\ batch_picks = << >> /\ picks = << >>
    /\ fetched = {} /\ raised = FALSE

NextRun == LoadConfig \/ Next

SpecRun == InitRun /\ [][NextRun]_vars

----------------------------------------------------------------------------
(* Properties *)

Count(seq, x) == Cardinality({k \in 1..Len(seq) : seq[k] = x})

SeqMinus(seq, bad) == SelectSeq(seq, LAMBDA x : x \notin bad)

Indices(n) == [i \in 1..n |-> i]

\* C1: a price series that is empty or has fewer than 50 rows makes
\* analyze_stock (both strategy classes) return the empty dict, and no stage
\* of the pipeline (indicators, signals, score, advice) runs for it.
C1_ShortSeriesReturnsEmpty ==
    (pc = "return" /\ frame.rows < MinRows)
        => (analysis.keys = {} /\ analysis.computed = {})

C1_Witness ==
    /\ pc = "return" /\ strategy = Original
    /\ frame.rows = MinRows - 1
    /\ analysis.keys = {} /\ analysis.computed = {}

\* C2: for every combination of labels in the five signal categories the
\* composite score lies in [0, 1] (0 .. 100 hundredths).
C2_ScoreInUnitInterval ==
    pc = "return" => (score >= 0 /\ score <= 100)

C2_Witness ==
    /\ pc = "return" /\ score = 100
    /\ {"STRONG_OVERSOLD"} \subseteq signals.bb_signals
    /\ "RSI_OVERSOLD" \in signals.rsi_signals
    /\ "GOLDEN_CROSS" \in signals.macd_signals
    /\ "VOLUME_SPIKE" \in signals.volume_signals
    /\ "MOMENTUM_UP" \in signals.momentum_signals

\* C3: the composite score is min(0.5 + B + 0.20 [RSI_OVERSOLD]
\* + 0.20 [GOLDEN_CROSS] + 0.15 [VOLUME_SPIKE] + 0.15 [MOMENTUM_UP], 1.0) with
\* B = 0.30 for STRONG_OVERSOLD, else 0.21 for OVERSOLD_REBOUND, else 0; the
\* bearish labels do not enter the score.
C3_BandBonus(s) ==
    IF "STRONG_OVERSOLD" \in s.bb_signals THEN 30
    ELSE IF "OVERSOLD_REBOUND" \in s.bb_signals THEN 21
    ELSE 0

C3_ClaimedScore(s) ==
    Min(50 + C3_BandBonus(s)
        + 20 * Flag("RSI_OVERSOLD" \in s.rsi_signals)
        + 20 * Flag("GOLDEN_CROSS" \in s.macd_signals)
        + 15 * Flag("VOLUME_SPIKE" \in s.volume_signals)
        + 15 * Flag("MOMENTUM_UP" \in s.momentum_signals), 100)

C3_ScoreFormula ==
    pc = "return" => score = C3_ClaimedScore(signals)

C3_Witness ==
    /\ pc = "return" /\ score = 71
    /\ signals.bb_signals = {"STRONG_OVERBOUGHT", "OVERSOLD_REBOUND"}
    /\ signals.rsi_signals = {"RSI_OVERBOUGHT"}
    /\ signals.macd_signals = {"DEATH_CROSS"}
    /\ signals.momentum_signals = {"MOMENTUM_DOWN"}

\* C9: the golden cross is emitted for the latest row iff macd <= macd_signal
\* on the previous row and macd > macd_signal on the latest row; the death
\* cross is the mirror condition; the two are never emitted together.
C9_CrossOnlyOnTransition ==
    (pc = "return" /\ frame.rows > 1) =>
        /\ ("GOLDEN_CROSS" \in signals.macd_signals) <=>
              (/\ frame.prev.macd <= frame.prev.macd_signal
               /\ frame.latest.macd > frame.latest.macd_signal)
        /\ ("DEATH_CROSS" \in signals.macd_signals) <=>
              (/\ frame.prev.macd >= frame.prev.macd_signal
               /\ frame.latest.macd < frame.latest.macd_signal)
        /\ signals.macd_signals # {"GOLDEN_CROSS", "DEATH_CROSS"}

C9_Witness ==
    /\ pc = "return" /\ frame.rows > 1
    /\ frame.prev.macd = frame.prev.macd_signal
    /\ frame.latest.macd > frame.latest.macd_signal
    /\ signals.macd_signals = {"GOLDEN_CROSS"}

\* C10 (as claimed): overall is a majority vote with bullish count = number
\* of present categories among {low-side band signal, RSI oversold, golden
\* cross} and bearish count = number of present categories among {high-side
\* band signal, RSI overbought}: BUY if bullish > bearish, SELL if bearish >
\* bullish, HOLD otherwise.
C10_Bullish(s) ==
    Flag(s.bb_signals \cap {"STRONG_OVERSOLD", "OVERSOLD_REBOUND"} # {})
    + Flag("RSI_OVERSOLD" \in s.rsi_signals)
    + Flag("GOLDEN_CROSS" \in s.macd_signals)

C10_Bearish(s) ==
    Flag(s.bb_signals \cap {"STRONG_OVERBOUGHT", "OVERBOUGHT_PULLBACK"} # {})
    + Flag("RSI_OVERBOUGHT" \in s.rsi_signals)

C10_MajorityVote ==
    pc = "return" =>
        signals.overall_signal =
            (IF C10_Bullish(signals) > C10_Bearish(signals) THEN "BUY"
             ELSE IF C10_Bearish(signals) > C10_Bullish(signals) THEN "SELL"
             ELSE "HOLD")

FracAdd(a, b) == [num |-> a.num * b.den + b.num * a.den, den |-> a.den * b.den]

RECURSIVE SumWeights(_)
SumWeights(ps) ==
    IF ps = << >> THEN [num |-> 0, den |-> 1]
    ELSE FracAdd(Head(ps).weight, SumWeights(Tail(ps)))

\* C4: generate_portfolio_recommendation, given N <= max_positions candidates
\* whose scores sum to T > 0, returns N positions in the candidates' order,
\* position i with weight score_i / T; the weights sum to 1.
C4_WeightsAreScoreShares ==
    (/\ pc = "return" /\ strategy \in Strategies
     /\ Len(screened) <= max_positions
     /\ SumSeq(Scores(screened)) > 0)
    =>
    /\ portfolio.raised = "none"
    /\ "positions" \in portfolio.keys
    /\ Len(portfolio.positions) = Len(screened)
    /\ \A i \in 1..Len(screened) :
          LET w == portfolio.positions[i].weight
          IN  /\ portfolio.positions[i].stock_code = screened[i].stock_code
              /\ w.den # 0
              /\ w.num * SumSeq(Scores(screened))
                    = screened[i].composite_score * w.den
    /\ LET total == SumWeights(portfolio.positions)
       IN  total.den # 0 /\ total.num = total.den

C4_Witness ==
    /\ pc = "return" /\ strategy = Original /\ max_positions = 3
    /\ Scores(screened) = <<80, 70, 60>>
    /\ Len(portfolio.positions) = 3
    /\ portfolio.positions[1].weight = [num |-> 80, den |-> 210]
    /\ portfolio.positions[2].weight = [num |-> 70, den |-> 210]
    /\ portfolio.positions[3].weight = [num |-> 60, den |-> 210]

\* C5 (as claimed): for every input order of the candidate list the returned
\* positions are in non-increasing score order, no omitted candidate has a
\* higher score than an included one, and total_positions =
\* min(number of candidates, max_positions) (SimpleStockRunner keeps 10).
C5_Limit == IF strategy = SimpleRunner THEN 10 ELSE max_positions

C5_SortedTopN ==
    (pc = "return" /\ "positions" \in portfolio.keys)
    =>
    LET ps == portfolio.positions
        included == {ps[i].stock_code : i \in 1..Len(ps)}
    IN  /\ \A i \in 1..Len(ps), j \in 1..Len(ps) :
              i < j => ps[i].confidence >= ps[j].confidence
        /\ \A k \in 1..Len(screened) :
              k \notin included =>
                 \A i \in 1..Len(ps) :
                    screened[k].composite_score <= ps[i].confidence
        /\ portfolio.total_positions = Min(Len(screened), C5_Limit)

\* C6 (as claimed): the allocator never raises on degenerate input; an empty
\* candidate list gives an allocation record with positions empty and
\* total_positions = 0; selected scores that total exactly 0 give each of
\* the N selected positions the weight 1/N.
C6_DegenerateInputHandled ==
    (pc = "return" /\ strategy \in Strategies)
    =>
    /\ portfolio.raised = "none"
    /\ screened = << >> =>
          /\ {"positions", "total_positions"} \subseteq portfolio.keys
          /\ portfolio.positions = << >>
          /\ portfolio.total_positions = 0
    /\ LET selected == Prefix(screened, max_positions)
       IN  (selected # << >> /\ SumSeq(Scores(selected)) = 0) =>
              /\ "positions" \in portfolio.keys
              /\ Len(portfolio.positions) = Len(selected)
              /\ \A i \in 1..Len(selected) :
                    LET w == portfolio.positions[i].weight
                    IN  w.den # 0 /\ w.num * Len(selected) = w.den

\* --- batch runs

\* The instruments for which a collaborator raises inside the runner (the
\* data collection loop runs no analysis).
Failing ==
    {i \in 1..Len(stocks) :
        \/ stocks[i] = "fetch_raises"
        \/ runner # Collector /\ stocks[i] = "analysis_raises"}

\* The list the runner iterates (the universe bounded by max_stocks where
\* the runner truncates it before iterating).
Iterated == IF runner = ThreadPool THEN PoolList ELSE stocks

\* The instruments of the iterated list other than the failing ones, in
\* order: the universe of the run without the failing instruments.
Survivors == SeqMinus(Indices(Len(Iterated)), Failing)

SeqSet(seq) == {seq[k] : k \in 1..Len(seq)}

\* Output of a screening run over the survivors alone.
C7_ScreenedWithout == SelectSeq(Survivors, LAMBDA i : stocks[i] = "pick")

\* Output of a data collection run over the survivors alone: the first
\* max_stocks of them that have a full series.
C7_FullSeries == {i \in SeqSet(Survivors) : stocks[i] \notin {"empty", "short"}}

C7_CollectedWithout ==
    Prefix(SelectSeq(Survivors, LAMBDA i : i \in C7_FullSeries), max_stocks)

\* C7: when the series provider or the analysis raises for an instrument the
\* batch run neither aborts nor raises; every other instrument of the
\* iterated universe is still fetched and analysed, is in the output iff it
\* would be in a run without the failing instruments, and the failing
\* instruments are absent from the output (sequential screener, thread-pool
\* screener, and the runner's data collection loop, which stops fetching
\* once max_stocks series are collected).
C7_FailureIsolated ==
    pc = "done" =>
        /\ ~raised
        /\ SeqSet(picks) \cap Failing = {}
        /\ runner = Sequential =>
              /\ picks = C7_ScreenedWithout
              /\ SeqSet(Survivors) \subseteq fetched
        /\ runner = ThreadPool =>
              /\ SeqSet(picks) = SeqSet(C7_ScreenedWithout)
              /\ Len(picks) = Len(C7_ScreenedWithout)
              /\ SeqSet(Survivors) \subseteq fetched
        /\ runner = Collector =>
              /\ picks = C7_CollectedWithout
              /\ \A i \in SeqSet(Survivors) :
                    i \in fetched <=>
                       Cardinality({j \in C7_FullSeries : j < i}) < max_stocks

C7_Witness ==
    /\ pc = "done" /\ runner = Sequential /\ ~raised
    /\ stocks = <<"pick", "fetch_raises", "pick">>
    /\ picks = <<1, 3>>
    /\ fetched = {1, 2, 3}

\* C8: in the thread-pool runner a worker step never changes a result list;
\* only the orchestrator appends, once per completed future whose result is
\* non-empty.  At every moment the lists hold exactly one entry for each
\* collected instrument whose task returned a result and none for any
\* other, and at the end the picks hold exactly one entry for each
\* instrument of the list whose task returned a non-empty result.
C8_Entries(i) ==
    Count(picks \o batch_picks, i)

C8_ExactlyOnce ==
    runner = ThreadPool =>
        /\ \A i \in 1..Len(stocks) :
              C8_Entries(i) =
                 Flag(task[i] = "collected"
                      /\ _process_single_stock(stocks[i]) = "pick")
        /\ pc = "done" =>
              \A i \in 1..Len(stocks) :
                 Count(picks, i) =
                    Flag(i <= Len(PoolList)
                         /\ _process_single_stock(stocks[i]) = "pick")

C8_WorkerStep ==
    \E i \in 1..Len(stocks) :
        /\ task'[i] # task[i]
        /\ task'[i] \in {"running", "finished"}

C8_OrchestratorAloneAppends ==
    /\ [] C8_ExactlyOnce
    /\ [][C8_WorkerStep => (picks' = picks /\ batch_picks' = batch_picks)]_vars

C8_Witness ==
    /\ pc = "done" /\ runner = ThreadPool
    /\ stocks = <<"pick", "analysis_raises", "pick">>
    /\ picks = <<3, 1>>

\* C11 (as claimed): when upper_band = lower_band on the latest row (a
\* zero-variance window, std = 0) analyze_stock returns a record whose
\* bb_position is the neutral 0.5, not NaN or inf, and whose band signal list
\* is empty.
C11_ZeroVarianceNeutral ==
    (pc = "return" /\ frame.rows >= MinRows /\ frame.latest.std = 0)
    =>
    /\ analysis.keys # {}
    /\ analysis.bb_position = Frac(1, 2)
    /\ analysis.signals.bb_signals = {}

\* The sum of the losses over the trailing window of rsi_period rows (the
\* average loss times period); NaN when the window is not full.
C12_WindowLoss == rolling_sum(loss_column(diff(series.close)), rsi_period)

\* C12 (as claimed): whenever the average loss over the trailing window of
\* rsi_period rows is zero the RSI of the row is 100, whatever the average
\* gain, a flat window (average gain zero as well) included.
C12_ZeroLossGivesHundred ==
    (pc = "return" /\ C12_WindowLoss = 0) => rsi_last = 100

\* C13: _generate_trading_advice (both classes) fills target_price, stop_loss
\* and position_size only when overall_signal is BUY and the score is at
\* least confidence_threshold; in every other case the advice carries the
\* overall signal as action and the score as confidence, with target_price,
\* stop_loss and position_size 0 and an empty reasoning list.
C13_Gate ==
    /\ signals.overall_signal = "BUY"
    /\ score >= _get_strategy_config(strategy).confidence_threshold

C13_AdviceGate ==
    pc = "return" =>
        /\ advice.action = signals.overall_signal
        /\ advice.confidence = score
        /\ ~C13_Gate =>
              /\ advice.target_price = 0 /\ advice.stop_loss = 0
              /\ advice.position_size = 0 /\ advice.reasoning = {}
        /\ (advice.target_price # 0 \/ advice.stop_loss # 0
            \/ advice.position_size # 0) => C13_Gate

C13_Witness ==
    /\ pc = "return" /\ strategy = Fixed
    /\ signals.overall_signal = "BUY" /\ score = 65
    /\ signals.volume_signals = {"VOLUME_SPIKE"}
    /\ advice.action = "BUY" /\ advice.confidence = 65
    /\ advice.target_price = 0 /\ advice.stop_loss = 0
    /\ advice.position_size = 0 /\ advice.reasoning = {}

\* The positions of the input dict whose analysis is non-empty, whose action
\* is BUY and whose composite_score is at least confidence_threshold.
C14_Qualifying ==
    {i \in 1..Len(stock_data_dict) :
        LET a == analyze_stock(strategy, stock_data_dict[i])
        IN  /\ a.keys # {}
            /\ a.trading_advice.action = "BUY"
            /\ a.composite_score
                  >= _get_strategy_config(strategy).confidence_threshold}

C15_AtMostMaxStocks ==
    runner \in {ThreadPool, Collector} =>
        /\ Cardinality(fetched) <= max_stocks
        /\ Len(picks) + Len(batch_picks) <= max_stocks

\* C16 (as claimed): under a missing or invalid configuration (missing file,
\* unparsable file, missing required section, non-numeric threshold or
\* period) the run aborts before any instrument's series is requested or
\* analysed: no instrument is ever fetched and nothing is picked.
C16_InvalidConfigAborts ==
    config # "valid" =>
        /\ fetched = {}
        /\ picks = << >> /\ batch_picks = << >>


\* C17: a flat series of 60 rows (constant close) that is analysed yields no
\* band signal, no RSI signal and no MACD cross; its composite score is 50
\* (0.5) plus the volume bonus of 15 (0.15) when the volume ratio of the last
\* row is at least min_volume_ratio, and its overall signal is HOLD.
C17_FlatCase ==
    /\ pc = "return"
    /\ Len(series.close) = 60
    /\ IsFlat(series)
    /\ analysis.keys # {}

C17_FlatSeriesNeutral ==
    C17_FlatCase
    =>
    /\ analysis.signals.bb_signals = {}
    /\ analysis.signals.rsi_signals = {}
    /\ analysis.signals.macd_signals = {}
    /\ analysis.composite_score =
          50 + (IF Ge(frame.latest.volume_ratio,
                      _get_strategy_config(strategy).min_volume_ratio)
                THEN 15 ELSE 0)
    /\ analysis.signals.overall_signal = "HOLD"

C17_Witness ==
    /\ C17_FlatCase
    /\ frame.latest.volume_ratio = 80
    /\ analysis.composite_score = 65


\* C18: the band classification of the latest row emits at most one band
\* signal, chosen in this order: band position <= 0.1 STRONG_OVERSOLD, else
\* <= 0.2 OVERSOLD_REBOUND, else >= 0.9 STRONG_OVERBOUGHT, else >= 0.8
\* OVERBOUGHT_PULLBACK, otherwise none (boundaries inclusive).
C18_BandClassification ==
    pc = "return" =>
        signals.bb_signals =
            (LET bb == frame.latest.bb_position
             IN  IF FracLe(bb, 10) THEN {"STRONG_OVERSOLD"}
                 ELSE IF FracLe(bb, 20) THEN {"OVERSOLD_REBOUND"}
                 ELSE IF FracGe(bb, 90) THEN {"STRONG_OVERBOUGHT"}
                 ELSE IF FracGe(bb, 80) THEN {"OVERBOUGHT_PULLBACK"}
                 ELSE {})


\* The advice produced is the non-default one; prices are in 1/100 of the
\* price unit of the row.
NonDefaultAdvice == pc = "return" /\ C13_Gate

C19_ClaimedTarget ==
    IF FracLe(frame.latest.bb_position, 20)
       \/ FracGe(frame.latest.bb_position, 80)
    THEN 100 * frame.latest.ma
    ELSE 105 * frame.latest.close

\* C19 as stated: for a non-default advice, target_price is the band middle
\* when band position <= 0.2 or >= 0.8, and current_price * 1.05 otherwise.
C19_TargetPrice ==
    NonDefaultAdvice => advice.target_price = C19_ClaimedTarget

\* C19 amended: the statement holds for the non-default advice of the
\* original strategy class, BollingerMeanReversionStrategy.
C19_TargetPriceOriginal ==
    (NonDefaultAdvice /\ strategy = Original)
    => advice.target_price = C19_ClaimedTarget

C19_Witness ==
    /\ NonDefaultAdvice /\ strategy = Original
    /\ FracLe(frame.latest.bb_position, 20)
    /\ advice.target_price = 100 * frame.latest.ma
    /\ advice.target_price # 105 * frame.latest.close

C20_ClaimedStop ==
    IF FracLe(frame.latest.bb_position, 20)
    THEN 100 * frame.latest.lower_band
    ELSE IF FracGe(frame.latest.bb_position, 80)
    THEN 100 * frame.latest.upper_band
    ELSE frame.latest.close
         * (100 - (IF advice.risk_level = "low" THEN 5
                   ELSE IF advice.risk_level = "medium" THEN 8
                   ELSE 12))

C21_Corroborating ==
    Cardinality(({"VOLUME_SPIKE"} \cap signals.volume_signals)
                \cup ({"GOLDEN_CROSS"} \cap signals.macd_signals)
                \cup ({"MOMENTUM_UP"} \cap signals.momentum_signals))

\* C21: the risk level of a non-default advice depends only on how many of
\* VOLUME_SPIKE, GOLDEN_CROSS, MOMENTUM_UP are present (2 or 3: low, exactly
\* 1: medium, 0: high); a default advice keeps risk level medium.
C21_RiskLevel ==
    pc = "return" =>
        advice.risk_level =
            (IF ~C13_Gate THEN "medium"
             ELSE IF C21_Corroborating >= 2 THEN "low"
             ELSE IF C21_Corroborating = 1 THEN "medium"
             ELSE "high")

C21_Witness ==
    /\ NonDefaultAdvice
    /\ C21_Corroborating = 1
    /\ signals.bb_signals # {} /\ signals.rsi_signals # {}
    /\ advice.risk_level = "medium"


\* C22: in every pipeline path the signals are classified from the latest
\* row only when that row has a full rolling window: a series shorter than
\* the band window is rejected before analyze_signals or _analyze_signals is
\* applied to it.
C22_FullWindowBeforeClassification ==
    (pc = "return" /\ signals.applied)
    =>
    /\ Len(series.close) >= bb_period
    /\ ~IsNaN(frame.latest.ma) /\ ~IsNaN(frame.latest.std)


\* C23: in the thread-pool runner at most max_workers tasks execute at any
\* moment, and batches run strictly one after another: no task of a later
\* batch is submitted before every task of each earlier batch has completed
\* and its result has been collected.
C23_BoundedPoolSequentialBatches ==
    /\ Cardinality(Running) <= screener.max_workers
    /\ \A i, j \in 1..Len(stocks) :
          (BatchOf(i) < BatchOf(j) /\ task[j] # "unsubmitted")
          => task[i] = "collected"

C23_Witness ==
    /\ screener.max_workers = 1 /\ screener.batch_size = 2
    /\ Len(PoolList) >= 4
    /\ task[1] = "collected" /\ task[2] = "collected"
    /\ task[3] = "running" /\ task[4] = "queued"


\* The tasks of the batch whose submission has just ended
C24_SubmittedBatch ==
    {i \in 1..Len(stocks) : task'[i] \notin {"unsubmitted", "collected"}}

\* C24: the batches partition the (possibly truncated) stock list: every
\* instrument of the list is submitted exactly once, in exactly one batch,
\* and no other instrument is; every batch holds at most batch_size
\* instruments and every batch but the last holds exactly batch_size.
C24_BatchesPartition ==
    [][/\ \A i \in 1..Len(stocks) :
             (task'[i] = "queued" /\ task[i] # "queued")
             => (task[i] = "unsubmitted" /\ i <= Len(PoolList))
       /\ (pc = "submit" /\ pc' = "collect")
          => /\ C24_SubmittedBatch # {}
             /\ Cardinality(C24_SubmittedBatch) <= screener.batch_size
             /\ idx' <= Len(PoolList)
                => Cardinality(C24_SubmittedBatch) = screener.batch_size
       /\ (pc # "done" /\ pc' = "done" /\ ~raised')
          => \A i \in 1..Len(stocks) :
                task'[i] = (IF i <= Len(PoolList) THEN "collected"
                            ELSE "unsubmitted")]_vars

C24_Witness ==
    /\ pc = "done" /\ screener.batch_size = 2
    /\ Len(stocks) = 4 /\ max_stocks = 3
    /\ task = <<"collected", "collected", "collected", "unsubmitted">>


\* The rows of the stock list whose task returns a pick
C25_Producing ==
    {i \in 1..Len(PoolList) :
        _process_single_stock(behaviour(config, stocks[i])) = "pick"}

C25_Returned ==
    /\ pc = "done"
    /\ \A i \in 1..Len(stocks) : task[i] \in {"collected", "unsubmitted"}
    /\ \A i \in 1..Len(PoolList) : task[i] = "collected"
    /\ batch_picks = << >>
    /\ {picks[k] : k \in 1..Len(picks)} = C25_Producing
    /\ Len(picks) = Cardinality(C25_Producing)

\* C25: when every series fetch eventually returns or raises, the
\* thread-pool run terminates: eventually every batch is finished, no future
\* is pending when the run returns, and the returned list holds the result
\* of every task that produced one.
C25_PoolRunTerminates == <>C25_Returned

C25_Witness ==
    /\ C25_Returned
    /\ Len(PoolList) = 3 /\ Len(picks) = 2
    /\ stocks[1] = "fetch_raises"
    /\ screener.batch_size = 2 /\ screener.max_workers = 1


\* What a sequential pass over the same rows with the same screening
\* predicate appends, as a set
C26_SequentialPicks ==
    {i \in 1..Len(PoolList) :
        except_Exception(screen_one(behaviour(config, stocks[i]))) = "pick"}

\* C26: the set of picks the thread-pool runner returns is the same for
\* every completion order and equals that of a sequential pass; entries of
\* an earlier batch always precede entries of a later batch (only the order
\* inside one batch depends on the completion order).
C26_CompletionOrderIndependent ==
    pc = "done" =>
        /\ {picks[k] : k \in 1..Len(picks)} = C26_SequentialPicks
        /\ \A k, l \in 1..Len(picks) :
              k < l => (picks[k] # picks[l]
                        /\ BatchOf(picks[k]) <= BatchOf(picks[l]))

C26_Witness ==
    /\ pc = "done" /\ screener.batch_size = 2
    /\ picks = <<2, 1, 3>>


\* C27: in BollingerMeanReversionStrategy._analyze_signals the overall
\* signal is always BUY or HOLD; SELL is unreachable, because each label
\* that raises the sell count is also counted in the buy count.
C27_SellUnreachable ==
    (pc = "return" /\ strategy = Original)
    => signals.overall_signal \in {"BUY", "HOLD"}

C27_Witness ==
    /\ pc = "return" /\ strategy = Original
    /\ signals.rsi_signals = {"RSI_OVERBOUGHT"}
    /\ signals.bb_signals = {} /\ signals.macd_signals = {}
    /\ signals.overall_signal = "HOLD"


----------------------------------------------------------------------------
(* C28 *)

\* The advice record is not the default one of _get_default_advice
C28_NonDefault(adv) ==
    adv.target_price # 0 \/ adv.stop_loss # 0 \/ adv.position_size # 0

\* C28: in BollingerMeanReversionStrategy composite_score >= 0.5 for every
\* signal set, so with confidence_threshold = 0.5 the score test excludes
\* nobody: an analysed instrument is in screen_stocks' output, and has a
\* non-default advice, if and only if its overall signal is BUY.
C28_ScoreTestNeverExcludes ==
    (pc = "return" /\ strategy = Original) =>
        \A i \in 1..Len(stock_data_dict) :
            LET a == analyze_stock(Original, stock_data_dict[i])
                listed == \E k \in 1..Len(screened) : screened[k].stock_code = i
            IN  IF a.keys = {} THEN ~listed
                ELSE /\ a.composite_score >= 50
                     /\ listed <=> a.signals.overall_signal = "BUY"
                     /\ C28_NonDefault(a.trading_advice)
                            <=> a.signals.overall_signal = "BUY"

\* A BUY candidate whose score is exactly the base 0.5 is listed, next to an
\* analysed instrument that is not a BUY and is left out.
C28_Witness ==
    /\ pc = "return" /\ strategy = Original
    /\ \E k \in 1..Len(screened) :
          /\ screened[k].composite_score = 50
          /\ C28_NonDefault(screened[k].trading_advice)
    /\ \E i \in 1..Len(stock_data_dict) :
          LET a == analyze_stock(Original, stock_data_dict[i])
          IN  /\ a.keys # {}
              /\ a.signals.overall_signal # "BUY"
              /\ ~C28_NonDefault(a.trading_advice)


----------------------------------------------------------------------------
(* C29 *)

\* C29 (as claimed): BollingerMeanReversionStrategyFixed.analyze_stock, given
\* a series of at least 50 rows with close and volume columns, returns a
\* non-empty candidate record: every column it reads from the frame is one
\* that BollingerBands.calculate or _calculate_all_indicators has produced, so
\* the error path returning {} is not taken.
C29_FixedAnalysisNonEmpty ==
    (/\ pc = "return" /\ strategy = Fixed
     /\ frame.rows >= MinRows
     /\ {"close", "volume"} \subseteq frame.columns) =>
        /\ analyze_stock_reads(Fixed)
               \subseteq _calculate_all_indicators_columns(Fixed)
        /\ analysis.keys = ResultKeys
        /\ "advice" \in analysis.computed


----------------------------------------------------------------------------
(* C30 *)

\* C30 (as claimed): for every non-default (BUY) advice produced by
\* BollingerMeanReversionStrategy with a positive current price and
\* lower_band < upper_band, stop_loss <= current_price (stop_loss is held in
\* hundredths of the price unit).
C30_StopNotAbovePrice ==
    (/\ pc = "return" /\ strategy = Original
     /\ analysis.keys # {}
     /\ analysis.trading_advice.action = "BUY"
     /\ C28_NonDefault(analysis.trading_advice)
     /\ analysis.current_price > 0
     /\ Lt(BollingerBands_calculate(frame.latest).lower_band,
           BollingerBands_calculate(frame.latest).upper_band)) =>
        analysis.trading_advice.stop_loss <= 100 * analysis.current_price

============================================================================
